---- MODULE Spec2Model ----
(***************************************************************************)
(* A model of the Wordle feedback computation (Correctness::compute), the  *)
(* candidate matcher (Guess::matches) and the elimination loop             *)
(* (Guesser::solve) of src/src/guesser.rs.                                 *)
(*                                                                         *)
(* Words are sequences of WordLen one-character strings.  The code indexes *)
(* from 0; sequences here are indexed from 1, the loop counter i of solve  *)
(* keeps the code's 0-based value.                                         *)
(***************************************************************************)
EXTENDS Integers, Sequences, FiniteSets, TLC

\* ------------------------------------------------------------------------
\* Program constants
\* ------------------------------------------------------------------------

\* [Self; 5], [false; 5]: the fixed width of a word and of a mask
WordLen == 5

\* history: [Option<Guess>; 6] and `for i in 0..6`
MaxRounds == 6

Pos == 1..WordLen

\* enum Correctness
Correct == "Correct"
Misplaced == "Misplaced"
Wrong == "Wrong"

Correctness == {Correct, Misplaced, Wrong}

\* Option<T>: None is the empty sequence, Some(x) the sequence holding x
None == <<>>
Some(x) == <<x>>
unwrap(o) == o[1]

\* let mut current_word = "salet";
OpeningWord == <<"s", "a", "l", "e", "t">>

\* ------------------------------------------------------------------------
\* Bounds of the model
\* ------------------------------------------------------------------------

\* number of letters the inputs of the unit-test harness are drawn from
NumLetters == 2

\* longest dictionary handed to Guesser::new
MaxDict == 6

Alphabet == <<"a", "b", "c", "d">>

Letters == {Alphabet[k] : k \in 1..NumLetters}

Words == [Pos -> Letters]

\* compute and matches compare bytes for equality only, so the guess word of
\* the harness is drawn up to a renaming of the letters: a letter appears
\* in it only after every earlier letter of the alphabet has
GuessWords ==
    {w \in Words :
        \A i \in Pos : \E k \in 1..NumLetters :
            /\ w[i] = Alphabet[k]
            /\ \A m \in 1..(k - 1) : \E j \in 1..(i - 1) : w[j] = Alphabet[m]}

\* the words the solver's inputs are drawn from
slate == <<"s", "l", "a", "t", "e">>
bbbbb == <<"b", "b", "b", "b", "b">>
cbbbb == <<"c", "b", "b", "b", "b">>

\* words that differ from bbbbb in their first letter only, none of them a
\* letter of the opening word
Fillers == [k \in 1..5 |-> <<<<"d", "f", "g", "h", "k">>[k], "b", "b", "b", "b">>]

DictPool == {slate, cbbbb} \cup {Fillers[k] : k \in 1..5}

Answers == {OpeningWord, slate, bbbbb, cbbbb}

ExclSets == {{}, {cbbbb}, {slate, cbbbb}}

\* the words that may follow the dictionary d: a word d does not hold yet
\* and, for a filler, one that comes after the fillers d holds
DictExt(d) ==
    {w \in DictPool :
        /\ \A x \in 1..Len(d) : d[x] # w
        /\ \A k, m \in 1..5 :
             (w = Fillers[k] /\ \E x \in 1..Len(d) : d[x] = Fillers[m]) => m < k}

RECURSIVE DictsOfLen(_)
DictsOfLen(n) ==
    IF n = 0 THEN {<<>>}
    ELSE UNION {{Append(d, w) : w \in DictExt(d)} : d \in DictsOfLen(n - 1)}

\* dictionaries: at most MaxDict distinct words of the pool; slate and cbbbb
\* (the words that answers and exclusions name) stand anywhere, the fillers
\* keep their relative order
Dicts == UNION {DictsOfLen(n) : n \in 0..MaxDict}

\* ------------------------------------------------------------------------
\* Correctness::compute
\* ------------------------------------------------------------------------

\* first pass: c[i] = Correct and used[i] = true where a == g
ComputePass1(answer, word) ==
    [c    |-> [i \in Pos |-> IF answer[i] = word[i] THEN Correct ELSE Wrong],
     used |-> [i \in Pos |-> answer[i] = word[i]]]

\* answer.bytes().enumerate().any(|(i, a)| a == g && !used[i]): the index of
\* the first answer position the closure accepts (the one it marks used),
\* 0 when any() returns false
RECURSIVE AnyUnused_m(_, _, _, _)
AnyUnused_m(answer, g, used, k) ==
    IF k > WordLen THEN 0
    ELSE IF answer[k] = g THEN k
    ELSE AnyUnused_m(answer, g, used, k + 1)

RECURSIVE AnyUnused(_, _, _, _)
AnyUnused(answer, g, used, k) ==
    IF k > WordLen THEN 0
    ELSE IF answer[k] = g /\ ~used[k] THEN k
    ELSE AnyUnused(answer, g, used, k + 1)

RECURSIVE ComputePass2_m(_, _, _, _, _)
ComputePass2_m(answer, word, c, used, i) ==
    IF i > WordLen THEN c
    ELSE LET k == AnyUnused(answer, word[i], used, 1) IN
         IF k # 0
         THEN ComputePass2_m(answer, word, [c EXCEPT ![i] = Misplaced],
                             [used EXCEPT ![k] = TRUE], i + 1)
         ELSE ComputePass2_m(answer, word, c, used, i + 1)

\* second pass: for (i, g) in word.bytes().enumerate()
RECURSIVE ComputePass2(_, _, _, _, _)
ComputePass2(answer, word, c, used, i) ==
    IF i > WordLen THEN c
    ELSE IF c[i] = Correct THEN ComputePass2(answer, word, c, used, i + 1)
    ELSE LET k == AnyUnused(answer, word[i], used, 1) IN
         IF k # 0
         THEN ComputePass2(answer, word, [c EXCEPT ![i] = Misplaced],
                           [used EXCEPT ![k] = TRUE], i + 1)
         ELSE ComputePass2(answer, word, c, used, i + 1)

compute(answer, word) ==
    LET p == ComputePass1(answer, word) IN
    ComputePass2(answer, word, p.c, p.used, 1)

\* ------------------------------------------------------------------------
\* Guess
\* ------------------------------------------------------------------------

\* Guess::check
check(answer, word) == [word |-> word, mask |-> compute(answer, word)]

RECURSIVE MatchesInner_self(_, _, _, _, _)
MatchesInner_self(self, i, w, used, j) ==
    IF j > WordLen THEN [ret |-> "next", used |-> used]
    ELSE IF self.word[j] # w \/ used[j] THEN MatchesInner_self(self, i, w, used, j + 1)
    ELSE IF self.mask[j] = Correct THEN MatchesInner_self(self, i, w, used, j + 1)
    ELSE IF self.mask[j] = Misplaced
         THEN [ret |-> "next", used |-> [used EXCEPT ![j] = TRUE]]
    ELSE [ret |-> "reject", used |-> used]

RECURSIVE MatchesInner_w(_, _, _, _, _)
MatchesInner_w(self, i, w, used, j) ==
    IF j > WordLen THEN [ret |-> "next", used |-> used]
    ELSE IF self.word[j] # w \/ used[j] THEN MatchesInner_w(self, i, w, used, j + 1)
    ELSE IF self.mask[j] = Correct THEN MatchesInner_w(self, i, w, used, j + 1)
    ELSE IF self.mask[j] = Wrong THEN MatchesInner_w(self, i, w, used, j + 1)
    ELSE IF j # i
         THEN [ret |-> "next", used |-> [used EXCEPT ![j] = TRUE]]
    ELSE [ret |-> "reject", used |-> used]

RECURSIVE MatchesInner_m(_, _, _, _, _)
MatchesInner_m(self, i, w, used, j) ==
    IF j > WordLen THEN [ret |-> "next", used |-> used]
    ELSE IF self.word[j] # w \/ used[j] THEN MatchesInner_m(self, i, w, used, j + 1)
    ELSE IF self.mask[j] = Misplaced /\ j # i
         THEN [ret |-> "next", used |-> [used EXCEPT ![j] = TRUE]]
    ELSE [ret |-> "reject", used |-> used]

\* the inner loop of Guess::matches for candidate position i holding byte w:
\* "reject" is `return false`, "next" is `continue 'outer` or the loop
\* running to its end
RECURSIVE MatchesInner(_, _, _, _, _)
MatchesInner(self, i, w, used, j) ==
    IF j > WordLen THEN [ret |-> "next", used |-> used]
    ELSE IF self.word[j] # w \/ used[j] THEN MatchesInner(self, i, w, used, j + 1)
    ELSE IF self.mask[j] = Correct THEN MatchesInner(self, i, w, used, j + 1)
    ELSE IF self.mask[j] = Misplaced /\ j # i
         THEN [ret |-> "next", used |-> [used EXCEPT ![j] = TRUE]]
    ELSE [ret |-> "reject", used |-> used]

MatchesClosing_none(self, used) == TRUE

MatchesClosing_m(self, used) ==
    ~ \E k \in Pos : self.mask[k] # Correct /\ ~used[k]

\* the closing loop of Guess::matches: a Misplaced mark that was not used
MatchesClosing(self, used) ==
    ~ \E k \in Pos : self.mask[k] = Misplaced /\ ~used[k]

\* the 'outer loop of Guess::matches
RECURSIVE MatchesOuter(_, _, _, _)
MatchesOuter(self, word, used, i) ==
    IF i > WordLen THEN MatchesClosing(self, used)
    ELSE IF self.mask[i] = Correct
         THEN IF word[i] # self.word[i] THEN FALSE
              ELSE MatchesOuter(self, word, [used EXCEPT ![i] = TRUE], i + 1)
    ELSE LET r == MatchesInner(self, i, word[i], used, 1) IN
         IF r.ret = "reject" THEN FALSE
         ELSE MatchesOuter(self, word, r.used, i + 1)

\* Guess::matches
matches(self, word) == MatchesOuter(self, word, [k \in Pos |-> FALSE], 1)

\* Guess::is_correct
is_correct(self) == self.mask = [k \in Pos |-> Correct]

\* ------------------------------------------------------------------------
\* State
\* ------------------------------------------------------------------------
VARIABLES
    \* tests: answer, guess_word, guess, the word handed to matches, its result
    t_answer, t_guess_word, t_guess, t_cand, t_res, t_pc,
    \* the caller's Vec that Guesser::new borrows
    caller_dictionary,
    \* struct Guesser
    answer, dictionary, exclusions, history,
    \* locals of Guesser::solve, its position and its return value
    current_word, i, guess, pc, ret,
    \* the words handed to Guess::check so far, in order
    guessed,
    \* the outcome of a call of Guesser::guessed_words
    gw

tvars == <<t_answer, t_guess_word, t_guess, t_cand, t_res, t_pc>>

svars == <<caller_dictionary, answer, dictionary, exclusions, history,
           current_word, i, guess, pc, ret, guessed, gw>>

vars == <<tvars, svars>>

\* Cow<'a, Vec<&'a str>>
Borrowed == [tag |-> "Borrowed", vec |-> <<>>]
Owned(v) == [tag |-> "Owned", vec |-> v]

\* Deref of the Cow: the caller's Vec while borrowed, the private one after
Deref(d) == IF d.tag = "Borrowed" THEN caller_dictionary ELSE d.vec

\* no unit test running
TestIdle ==
    /\ t_answer = <<>>
    /\ t_guess_word = <<>>
    /\ t_guess = None
    /\ t_cand = <<>>
    /\ t_res = FALSE
    /\ t_pc = "idle"

\* no Guesser constructed
SolveIdle ==
    /\ caller_dictionary = <<>>
    /\ answer = <<>>
    /\ dictionary = Borrowed
    /\ exclusions = {}
    /\ history = [k \in 1..MaxRounds |-> None]
    /\ current_word = <<>>
    /\ i = 0
    /\ guess = None
    /\ pc = "idle"
    /\ ret = None
    /\ guessed = <<>>
    /\ gw = [tag |-> "uncalled", words |-> <<>>]

\* ------------------------------------------------------------------------
\* The unit tests' shape: a guess checked against an answer, then matched
\* against a candidate
\* ------------------------------------------------------------------------
TestInit ==
    /\ t_answer \in Words
    /\ t_guess_word \in GuessWords
    /\ t_guess = None
    /\ t_cand = <<>>
    /\ t_res = FALSE
    /\ t_pc = "check"
    /\ SolveIdle

\* let guess = Guess::check(answer, guess_word);
TestCheck ==
    /\ t_pc = "check"
    /\ t_guess' = Some(check(t_answer, t_guess_word))
    /\ t_pc' = "matches"
    /\ UNCHANGED <<t_answer, t_guess_word, t_cand, t_res, svars>>

\* guess.matches(cand)
TestMatches ==
    /\ t_pc = "matches"
    /\ \E cand \in Words :
        /\ t_cand' = cand
        /\ t_res' = matches(unwrap(t_guess), cand)
    /\ t_pc' = "asserted"
    /\ UNCHANGED <<t_answer, t_guess_word, t_guess, svars>>

TestNext == TestCheck \/ TestMatches

TestSpec == TestInit /\ [][TestNext]_vars

\* ------------------------------------------------------------------------
\* Guesser
\* ------------------------------------------------------------------------

\* Guesser::new, followed by the entry of solve
Init ==
    /\ TestIdle
    /\ caller_dictionary \in Dicts
    /\ answer \in Answers
    /\ exclusions \in ExclSets
    /\ dictionary = Borrowed
    /\ history = [k \in 1..MaxRounds |-> None]
    /\ current_word = OpeningWord
    /\ i = 0
    /\ guess = None
    /\ pc = "loop"
    /\ ret = None
    /\ guessed = <<>>
    /\ gw = [tag |-> "uncalled", words |-> <<>>]

SolveCheck_ret0 ==
    /\ pc = "loop"
    /\ i < MaxRounds
    /\ LET g == check(answer, current_word) IN
        /\ guess' = Some(g)
        /\ guessed' = Append(guessed, current_word)
        /\ IF is_correct(g)
           THEN pc' = "done" /\ ret' = Some(i)
           ELSE pc' = "filter" /\ ret' = ret
    /\ UNCHANGED <<tvars, caller_dictionary, answer, dictionary, exclusions,
                   history, current_word, i, gw>>

SolveCheck_incl ==
    /\ pc = "loop"
    /\ i <= MaxRounds
    /\ LET g == check(answer, current_word) IN
        /\ guess' = Some(g)
        /\ guessed' = Append(guessed, current_word)
        /\ IF is_correct(g)
           THEN pc' = "done" /\ ret' = Some(i + 1)
           ELSE pc' = "filter" /\ ret' = ret
    /\ UNCHANGED <<tvars, caller_dictionary, answer, dictionary, exclusions,
                   history, current_word, i, gw>>

\* for i in 0..6 {
\*     let guess = Guess::check(self.answer, current_word);
\*     if guess.is_correct() { return Some(i + 1); }
SolveCheck ==
    /\ pc = "loop"
    /\ i < MaxRounds
    /\ LET g == check(answer, current_word) IN
        /\ guess' = Some(g)
        /\ guessed' = Append(guessed, current_word)
        /\ IF is_correct(g)
           THEN pc' = "done" /\ ret' = Some(i + 1)
           ELSE pc' = "filter" /\ ret' = ret
    /\ UNCHANGED <<tvars, caller_dictionary, answer, dictionary, exclusions,
                   history, current_word, i, gw>>

Keep_m(g, excl, word) == matches(g, word)

\* the closure of filter_map and of retain
Keep(g, excl, word) == matches(g, word) /\ word \notin excl

Filtered_m(d, g, excl) ==
    LET keep(word) == Keep(g, excl, word) IN
    Owned(SelectSeq(caller_dictionary, keep))

\* what either arm of `match &mut self.dictionary` leaves in the Cow
Filtered(d, g, excl) ==
    LET keep(word) == Keep(g, excl, word) IN
    IF d.tag = "Borrowed"
    THEN Owned(SelectSeq(Deref(d), keep))
    ELSE Owned(SelectSeq(d.vec, keep))

SolveFilter_m ==
    /\ pc = "filter"
    /\ LET keep(word) == Keep(unwrap(guess), exclusions, word) IN
       IF dictionary.tag = "Borrowed"
       THEN /\ caller_dictionary' = SelectSeq(caller_dictionary, keep)
            /\ dictionary' = dictionary
       ELSE /\ dictionary' = Owned(SelectSeq(dictionary.vec, keep))
            /\ caller_dictionary' = caller_dictionary
    /\ pc' = "record"
    /\ UNCHANGED <<tvars, answer, exclusions, history,
                   current_word, i, guess, ret, guessed, gw>>

\* match &mut self.dictionary { ... }
SolveFilter ==
    /\ pc = "filter"
    /\ dictionary' = Filtered(dictionary, unwrap(guess), exclusions)
    /\ pc' = "record"
    /\ UNCHANGED <<tvars, caller_dictionary, answer, exclusions, history,
                   current_word, i, guess, ret, guessed, gw>>

SolveRecord_last ==
    /\ pc = "record"
    /\ history' = [history EXCEPT ![i + 1] = guess]
    /\ IF Len(Deref(dictionary)) = 0
       THEN /\ pc' = "done"
            /\ ret' = None
            /\ UNCHANGED <<current_word, i>>
       ELSE /\ current_word' = Deref(dictionary)[Len(Deref(dictionary))]
            /\ i' = i + 1
            /\ pc' = "loop"
            /\ ret' = ret
    /\ UNCHANGED <<tvars, caller_dictionary, answer, dictionary, exclusions,
                   guess, guessed, gw>>

SolveRecord_nobreak ==
    /\ pc = "record"
    /\ history' = [history EXCEPT ![i + 1] = guess]
    /\ IF Len(Deref(dictionary)) = 0
       THEN /\ pc' = "panic"
            /\ ret' = ret
            /\ UNCHANGED <<current_word, i>>
       ELSE /\ current_word' = Deref(dictionary)[1]
            /\ i' = i + 1
            /\ pc' = "loop"
            /\ ret' = ret
    /\ UNCHANGED <<tvars, caller_dictionary, answer, dictionary, exclusions,
                   guess, guessed, gw>>

SolveRecord_m ==
    /\ pc = "record"
    /\ history' = [history EXCEPT ![i + 1] = guess]
    /\ IF Len(Deref(dictionary)) = 0
       THEN /\ pc' = "done"
            /\ ret' = None
            /\ UNCHANGED <<current_word, i>>
       ELSE /\ current_word' = Deref(dictionary)[1]
            /\ i' = i
            /\ pc' = "loop"
            /\ ret' = ret
    /\ UNCHANGED <<tvars, caller_dictionary, answer, dictionary, exclusions,
                   guess, guessed, gw>>

\*     self.history[i] = Some(guess);
\*     if self.dictionary.is_empty() { break; }   (then `None`)
\*     current_word = self.dictionary[0];
\* }
SolveRecord ==
    /\ pc = "record"
    /\ history' = [history EXCEPT ![i + 1] = guess]
    /\ IF Len(Deref(dictionary)) = 0
       THEN /\ pc' = "done"
            /\ ret' = None
            /\ UNCHANGED <<current_word, i>>
       ELSE /\ current_word' = Deref(dictionary)[1]
            /\ i' = i + 1
            /\ pc' = "loop"
            /\ ret' = ret
    /\ UNCHANGED <<tvars, caller_dictionary, answer, dictionary, exclusions,
                   guess, guessed, gw>>

\* the range 0..6 is used up: the `None` after the loop
SolveLoopEnd ==
    /\ pc = "loop"
    /\ i >= MaxRounds
    /\ pc' = "done"
    /\ ret' = None
    /\ UNCHANGED <<tvars, caller_dictionary, answer, dictionary, exclusions,
                   history, current_word, i, guess, guessed, gw>>

\* Guesser::guessed_words: og.unwrap() panics on a slot that is None
guessed_words(h) ==
    IF \E k \in 1..MaxRounds : h[k] = None
    THEN [tag |-> "panic", words |-> <<>>]
    ELSE [tag |-> "ok", words |-> [k \in 1..MaxRounds |-> unwrap(h[k]).word]]

\* the caller asks for the guessed words after solve has returned
GuessedWords ==
    /\ pc = "done"
    /\ gw.tag = "uncalled"
    /\ gw' = guessed_words(history)
    /\ UNCHANGED <<tvars, caller_dictionary, answer, dictionary, exclusions,
                   history, current_word, i, guess, pc, ret, guessed>>

Next == SolveCheck \/ SolveFilter \/ SolveRecord \/ SolveLoopEnd \/ GuessedWords

Spec == Init /\ [][Next]_vars

\* solve is straight-line code in one thread: a step that can be taken is taken
FairSpec == Spec /\ WF_vars(Next)

\* either a unit test or a solve attempt
BothInit == TestInit \/ Init

BothNext == TestNext \/ Next

BothSpec == BothInit /\ [][BothNext]_vars

\* ------------------------------------------------------------------------
\* Helpers of the claims
\* ------------------------------------------------------------------------

Range(seq) == {seq[k] : k \in 1..Len(seq)}

CountIn(word, l) == Cardinality({k \in Pos : word[k] = l})

\* the candidate set of the solver
Candidates == Deref(dictionary)

\* the number of history slots that hold a record
Recorded == Cardinality({k \in 1..MaxRounds : history[k] # None})

\* the harness has computed its guess
TestChecked == t_pc \in {"matches", "asserted"}

TestMask == unwrap(t_guess).mask

\* ------------------------------------------------------------------------
\* Claims about compute and matches (TestSpec)
\* ------------------------------------------------------------------------

\* C1: for g = check(A, G), g.matches(C) is true if and only if
\* compute(C, G) equals g.mask.
C1_MatchesIffCompute ==
    t_pc = "asserted" =>
        (t_res <=> compute(t_cand, t_guess_word) = TestMask)

\* C2: reflexivity: a guess checked against the answer A matches A.
C2_Reflexive ==
    (t_pc = "asserted" /\ t_cand = t_answer) => t_res = TRUE

\* the answer was matched against a guess whose mask holds all three marks
C2_Witness ==
    /\ t_pc = "asserted"
    /\ t_cand = t_answer
    /\ t_res = TRUE
    /\ \A m \in Correctness : \E k \in Pos : TestMask[k] = m

\* the positions of the guess that hold l and carry mark m
MarksOf(l, m) == {k \in Pos : t_guess_word[k] = l /\ TestMask[k] = m}

\* C3: for each letter l, the guess positions holding l that are marked
\* Correct or Misplaced are no more than the occurrences of l in the answer,
\* and the occurrences of l in the guess beyond that number are marked Wrong.
C3_MarksBounded ==
    TestChecked =>
        \A l \in Letters :
            /\ Cardinality(MarksOf(l, Correct)) + Cardinality(MarksOf(l, Misplaced))
                 <= CountIn(t_answer, l)
            /\ Cardinality(MarksOf(l, Wrong))
                 >= CountIn(t_guess_word, l) - CountIn(t_answer, l)

\* a letter the guess holds more often than the answer, with a Misplaced and
\* a Wrong mark
C3_Witness ==
    /\ TestChecked
    /\ \E l \in Letters :
        /\ CountIn(t_guess_word, l) > CountIn(t_answer, l)
        /\ MarksOf(l, Misplaced) # {}
        /\ MarksOf(l, Wrong) # {}

\* C4: position k is marked Correct exactly when the guess and the answer
\* agree at k; so the mask of a word against itself is all Correct, and the
\* mask is all Correct only when the guess is the answer.
C4_CorrectIffEqual ==
    TestChecked =>
        /\ \A k \in Pos : TestMask[k] = Correct <=> t_guess_word[k] = t_answer[k]
        /\ is_correct(unwrap(t_guess)) <=> t_guess_word = t_answer

\* a word with a repeated letter checked against itself
C4_Witness ==
    /\ TestChecked
    /\ t_guess_word = t_answer
    /\ is_correct(unwrap(t_guess))
    /\ \E k \in Pos : t_guess_word[k] # t_guess_word[1]

\* ------------------------------------------------------------------------
\* Claims about Guesser::solve (Spec, FairSpec)
\* ------------------------------------------------------------------------

\* C5 as stated: whatever the exclusion set, an answer that is in the
\* candidate set before a filtering step is in it after the step.
C5_Retention ==
    [][(pc = "filter" /\ answer \in Range(Candidates))
           => answer \in Range(Candidates')]_vars

\* C5, amended: when the exclusion set does not hold the answer, an answer
\* that is in the candidate set before a filtering step is in it after the
\* step.
C5_RetentionUnlessExcluded ==
    [][(pc = "filter" /\ answer \notin exclusions /\ answer \in Range(Candidates))
           => answer \in Range(Candidates')]_vars

\* a filtering step of round 2 or later has removed words and kept the answer
C5_Witness ==
    /\ pc = "record"
    /\ i >= 1
    /\ answer \notin exclusions
    /\ answer \in Range(Candidates)
    /\ Len(Candidates) < Len(caller_dictionary)

\* the rounds whose guessed word is the answer
Hits == {r \in 1..Len(guessed) : guessed[r] = answer}

\* C6: solve returns Some(r) exactly when the word guessed in round r is the
\* answer and no word guessed before was, with 1 <= r <= 6; it returns None
\* in every other case (6 rounds played, or the candidate set empty).
C6_ReturnValue ==
    pc = "done" =>
        /\ ret \in {None} \cup {Some(r) : r \in 1..MaxRounds}
        /\ \A r \in 1..MaxRounds :
            ret = Some(r) <=> (r \in Hits /\ \A k \in 1..(r - 1) : k \notin Hits)
        /\ ret = None <=> Hits = {}
        /\ ret = None => (Len(guessed) = MaxRounds \/ Len(Candidates) = 0)

\* solved in the last round
C6_Witness ==
    /\ pc = "done"
    /\ ret = Some(MaxRounds)
    /\ guessed[MaxRounds] = answer

\* the terminal outcomes of solve
Solved == pc = "done" /\ ret # None
Exhausted == pc = "done" /\ ret = None /\ Len(Candidates) = 0
Unsolved == pc = "done" /\ ret = None /\ Len(guessed) = MaxRounds

\* C7: every run of solve ends in one of the outcomes Solved, Exhausted,
\* Unsolved, after at most 6 rounds.
C7_Terminates ==
    <>((Solved \/ Exhausted \/ Unsolved) /\ Len(guessed) <= MaxRounds)

\* the round cap ended a run whose candidate set still held words
C7_Witness ==
    /\ Unsolved
    /\ Len(guessed) = MaxRounds
    /\ Len(Candidates) > 0

\* C8: the history holds at most 6 records, and the records present are the
\* prefix history[0..k), record j being the guess of the j-th round played.
C8_HistoryPrefix ==
    /\ Recorded <= MaxRounds
    /\ Recorded <= Len(guessed)
    /\ \A k \in 1..MaxRounds : history[k] # None <=> k <= Recorded
    /\ \A k \in 1..MaxRounds :
        history[k] # None => history[k] = Some(check(answer, guessed[k]))

\* all 6 slots written
C8_Witness ==
    /\ pc = "done"
    /\ Recorded = MaxRounds

\* C9: when solve ends after r rounds the history holds r records, and on a
\* Solved outcome the last record is the all-Correct guess.
C9_HistoryHoldsEveryRound ==
    pc = "done" =>
        /\ Recorded = Len(guessed)
        /\ ret # None => is_correct(unwrap(history[Recorded]))

\* C10: after solve has returned, guessed_words does not fail and returns
\* the words guessed, in order.
C10_GuessedWordsOk ==
    gw.tag # "uncalled" => (gw.tag = "ok" /\ gw.words = guessed)

\* C11: monotonic shrink: a step of solve never adds a word to the candidate
\* set; the set after a round is a subset of, and no longer than, the set
\* before it, the first being the supplied dictionary.
C11_MonotonicShrink ==
    [][/\ Range(Candidates') \subseteq Range(Candidates)
       /\ Len(Candidates') <= Len(Candidates)
       /\ Range(Candidates') \subseteq Range(caller_dictionary)]_vars

\* the filtering step of a round after the first has removed the word just
\* guessed and left others
C11_Witness ==
    /\ pc = "record"
    /\ i >= 2
    /\ Len(Candidates) > 0
    /\ current_word \notin Range(Candidates)

\* C12: solve never alters the caller's dictionary; filtering works on a
\* private copy that the first filtering step creates.
C12_CallerDictionaryKept ==
    [][/\ caller_dictionary' = caller_dictionary
       /\ pc = "filter" => dictionary'.tag = "Owned"
       /\ pc # "filter" => dictionary' = dictionary]_vars

\* solve has returned with a private copy shorter than the caller's Vec
C12_Witness ==
    /\ pc = "done"
    /\ dictionary.tag = "Owned"
    /\ Len(dictionary.vec) < Len(caller_dictionary)

\* the positions of the candidate that hold l
CandOf(l) == {k \in Pos : t_cand[k] = l}

\* the number of guess positions holding l that are marked Correct or Misplaced
Marked(l) == Cardinality(MarksOf(l, Correct)) + Cardinality(MarksOf(l, Misplaced))

\* C13: a candidate that matches holds, for each letter l, at least as many
\* l outside the Correct positions as the guess has Misplaced marks on l, and
\* so at least as many l as the guess has l marked Correct or Misplaced.
C13_MisplacedRelocated ==
    (t_pc = "asserted" /\ t_res = TRUE) =>
        \A l \in Letters :
            /\ Cardinality({k \in CandOf(l) : TestMask[k] # Correct})
                 >= Cardinality(MarksOf(l, Misplaced))
            /\ CountIn(t_cand, l) >= Marked(l)

\* a word other than the answer matches a guess that has a Misplaced mark
C13_Witness ==
    /\ t_pc = "asserted"
    /\ t_res = TRUE
    /\ t_cand # t_answer
    /\ \E k \in Pos : TestMask[k] = Misplaced

\* C14: a candidate that matches differs from the guess word at every
\* position marked Misplaced or Wrong.
C14_DiffersAtNonCorrect ==
    (t_pc = "asserted" /\ t_res = TRUE) =>
        \A k \in Pos : TestMask[k] # Correct => t_cand[k] # t_guess_word[k]

\* C15: for a letter l with a Wrong mark, a candidate that matches holds
\* exactly as many l as the guess has l marked Correct or Misplaced; and a
\* candidate that would produce the mask, and holds l at the Correct
\* positions of l only, matches.
C15_WrongCapsCount ==
    t_pc = "asserted" =>
        \A l \in Letters : MarksOf(l, Wrong) # {} =>
            /\ t_res = TRUE => CountIn(t_cand, l) = Marked(l)
            /\ (/\ CandOf(l) = MarksOf(l, Correct)
                /\ compute(t_cand, t_guess_word) = TestMask) => t_res = TRUE

\* a candidate that matches, holding a letter at its Correct positions only
\* while the guess has that letter marked Wrong too
C15_Witness ==
    /\ t_pc = "asserted"
    /\ t_res = TRUE
    /\ \E l \in Letters :
        /\ MarksOf(l, Wrong) # {}
        /\ MarksOf(l, Correct) # {}
        /\ CandOf(l) = MarksOf(l, Correct)

\* the words of the supplied dictionary, in its order, that are not excluded
\* and that match every guess of the rounds before round r
AcceptedBefore(r) ==
    LET ok(w) == /\ w \notin exclusions
                 /\ \A k \in 1..(r - 1) : matches(check(answer, guessed[k]), w)
    IN SelectSeq(caller_dictionary, ok)

\* C16: round 1 guesses the opening word; round r >= 2 guesses the earliest
\* word of the supplied dictionary that matches every guess of the rounds
\* 1..r-1 and is not excluded.
C16_GuessSelection ==
    \A r \in 1..Len(guessed) :
        IF r = 1 THEN guessed[r] = OpeningWord
        ELSE /\ Len(AcceptedBefore(r)) > 0
             /\ guessed[r] = AcceptedBefore(r)[1]

\* the third guess stands in the dictionary behind a word that was never
\* guessed
C16_Witness ==
    /\ Len(guessed) >= 3
    /\ \E x, y \in 1..Len(caller_dictionary) :
        /\ x < y
        /\ caller_dictionary[y] = guessed[3]
        /\ caller_dictionary[x] \notin Range(guessed)

\* C17: when the candidate set is empty after a filtering step, solve makes
\* no further guess and returns None; a round starts only with a candidate
\* set that is not empty, its first entry being the word to guess.
C17_Exhaustion ==
    [][/\ (pc = "record" /\ Len(Candidates) = 0)
            => (pc' = "done" /\ ret' = None /\ guessed' = guessed)
       /\ (pc = "record" /\ pc' = "loop")
            => (Len(Candidates) > 0 /\ current_word' = Candidates[1])
       /\ pc = "done" => guessed' = guessed]_vars

\* the candidate set ran empty before the last round
C17_Witness ==
    /\ pc = "done"
    /\ ret = None
    /\ Len(Candidates) = 0
    /\ Len(guessed) \in 2..(MaxRounds - 1)

\* C18: after a filtering step the candidate set holds no excluded word, so
\* no word guessed in round 2 or later is excluded; when the answer is
\* excluded and is not the opening word, solve returns None.
C18_Exclusions ==
    /\ dictionary.tag = "Owned" => Range(Candidates) \cap exclusions = {}
    /\ \A r \in 2..Len(guessed) : guessed[r] \notin exclusions
    /\ (pc = "done" /\ answer \in exclusions /\ answer # OpeningWord) => ret = None

\* the dictionary held the excluded answer and other words were guessed
C18_Witness ==
    /\ pc = "done"
    /\ answer \in exclusions
    /\ answer \in Range(caller_dictionary)
    /\ Len(guessed) >= 3
    /\ ret = None

\* ------------------------------------------------------------------------
\* A claim about matches and solve together (BothSpec)
\* ------------------------------------------------------------------------

\* C19: a guess whose mask is not all Correct does not match its own word,
\* so that word is absent from the candidate set after the round's filtering
\* step; the words guessed in one attempt are pairwise distinct, and the
\* filtering step of a round after the first strictly shrinks the candidate
\* set.
C19_NoRepeatedGuess ==
    /\ [](/\ (/\ t_pc = "asserted"
              /\ t_cand = t_guess_word
              /\ ~is_correct(unwrap(t_guess))) => t_res = FALSE
          /\ pc = "filter" => ~matches(unwrap(guess), current_word)
          /\ pc = "record" => current_word \notin Range(Candidates)
          /\ \A x, y \in 1..Len(guessed) : x # y => guessed[x] # guessed[y])
    /\ [][(pc = "filter" /\ i >= 1) => Len(Candidates') < Len(Candidates)]_vars

\* a solve attempt has guessed all 6 rounds
C19_Witness ==
    /\ pc = "record"
    /\ Len(guessed) = MaxRounds
    /\ Len(Candidates) > 0

====
